---------------------------- MODULE Spec2Model ----------------------------
(***************************************************************************)
(* subfix (src/subfix/subfix.py): SubtitleFixer over one directory.        *)
(*                                                                         *)
(* A file name is a sequence of character codes (Python str), so that      *)
(* str.lower(), string comparison, Path.stem, Path.suffix and the glob     *)
(* patterns are computed as the code computes them.  The directory is a    *)
(* function from the names of the files it holds to their bytes.           *)
(*                                                                         *)
(* Bytes of a file are a record [src, kind, lvl, t]:                       *)
(*   src   the name the bytes were first found under (their identity),     *)
(*   kind  "text": subtitle text with at least one non-ASCII character,    *)
(*         "bin" : bytes valid neither as windows-1250 nor as utf-8,       *)
(*   lvl   for text: how many times the windows-1250 bytes of the text     *)
(*         have been utf-8 encoded (0 = windows-1250 bytes, 1 = utf-8      *)
(*         bytes, 2 = utf-8 bytes of the windows-1250 reading of level 1), *)
(*   t     the offset applied to the timestamps.                           *)
(***************************************************************************)
EXTENDS Integers, Sequences, FiniteSets, TLC

\* fs      the directory: file name -> bytes
\* log     the logger's records of the last command
\* raised  the exception that ended the last command, or "none"
\* ret     the list the last command returned (movies, subtitles, ...)
\* hist    the commands run so far, each with the directory it found
VARIABLES fs, log, raised, ret, hist

vars == <<fs, log, raised, ret, hist>>

(***************************************************************************)
(* Bounds of the model: the most files a directory holds before the first  *)
(* command runs,                                                           *)
(***************************************************************************)
MaxFiles == 3

\* the most commands of a session
MaxCmds == 2

(***************************************************************************)
(* Python str: lower(), comparison.                                        *)
(***************************************************************************)
LowerChar(c) == IF c >= 65 /\ c <= 90 THEN c + 32 ELSE c

Lower(s) == [i \in 1..Len(s) |-> LowerChar(s[i])]

\* s < t, lexicographic by code point, a proper prefix being smaller
StrLess(s, t) ==
    \E k \in 0..Len(s) :
        /\ k <= Len(t)
        /\ \A i \in 1..k : s[i] = t[i]
        /\ \/ (k = Len(s) /\ k < Len(t))
           \/ (k < Len(s) /\ k < Len(t) /\ s[k + 1] < t[k + 1])

StrLeq(s, t) == s = t \/ StrLess(s, t)

EndsWith(s, e) ==
    /\ Len(e) <= Len(s)
    /\ \A i \in 1..Len(e) : s[Len(s) - Len(e) + i] = e[i]

(***************************************************************************)
(* Class constants.  A pattern "*.ext" is kept as its ".ext" part.         *)
(***************************************************************************)
\* ".bkp"
BACKUP_EXT == <<46, 98, 107, 112>>
\* "*.mkv", "*.avi", "*.mp4"
MOVIE_EXTS == << <<46, 109, 107, 118>>, <<46, 97, 118, 105>>, <<46, 109, 112, 52>> >>
\* "*.srt", "*.sub"
SUB_EXTS == << <<46, 115, 114, 116>>, <<46, 115, 117, 98>> >>
\* "*.srt.bkp", "*.sub.bkp"
SUB_BKP_EXTS == [i \in 1..Len(SUB_EXTS) |-> SUB_EXTS[i] \o BACKUP_EXT]

(***************************************************************************)
(* pathlib: the position of the dot that starts the suffix (0 if none),    *)
(* suffix, stem, with_name, with_suffix, str(path).                        *)
(***************************************************************************)
Dots(name) == {i \in 1..Len(name) : name[i] = 46}

SuffixDot(name) ==
    IF Dots(name) = {} THEN 0
    ELSE LET i == CHOOSE d \in Dots(name) : \A e \in Dots(name) : e <= d
         IN  IF i > 1 /\ i < Len(name) THEN i ELSE 0

PathSuffix(name) ==
    IF SuffixDot(name) = 0 THEN <<>>
    ELSE SubSeq(name, SuffixDot(name), Len(name))

PathStem(name) ==
    IF SuffixDot(name) = 0 THEN name
    ELSE SubSeq(name, 1, SuffixDot(name) - 1)

WithSuffix(name, suffix) == PathStem(name) \o suffix

\* the directory the commands run on: "d", and str(dir / name)
DirStr == <<100>>

PathStr(name) == DirStr \o <<47>> \o name

(***************************************************************************)
(* Directory listings.                                                     *)
(***************************************************************************)
\* dir.glob("*" + ext): the names of the directory matching the pattern
Glob(dir, ext) == {p \in DOMAIN dir : EndsWith(p, ext)}

\* a sort that forgets .lower()
SortKeyCased(p) == PathStr(p)

SortKey(p) == Lower(PathStr(p))

\* sorted(names, key=lambda p: str(p).lower())
RECURSIVE Sorted(_)
Sorted(S) ==
    IF S = {} THEN <<>>
    ELSE LET m == CHOOSE x \in S : \A y \in S : StrLeq(SortKey(x), SortKey(y))
         IN  <<m>> \o Sorted(S \ {m})

\* sum((sorted(dir.glob(ext), ...) for ext in exts), [])
RECURSIVE Listing(_, _, _)
Listing(dir, exts, i) ==
    IF i > Len(exts) THEN <<>>
    ELSE Sorted(Glob(dir, exts[i])) \o Listing(dir, exts, i + 1)

movies(dir) == Listing(dir, MOVIE_EXTS, 1)

subtitles(dir) == Listing(dir, SUB_EXTS, 1)

subtitle_backups(dir) == Listing(dir, SUB_BKP_EXTS, 1)


(***************************************************************************)
(* Codecs (bytes.decode / str.encode) and the subtitle library.            *)
(* A decoded text is [src, n, t]: reading n of the text of src.            *)
(***************************************************************************)
Encodings == {"windows-1250", "utf-8"}

\* every byte string of kind "text" decodes as windows-1250; as utf-8 only
\* bytes that were utf-8 encoded do; "bin" decodes under neither
Decodable(b, enc) ==
    /\ b.kind = "text"
    /\ (enc = "utf-8" => b.lvl >= 1)

Decode(b, enc) ==
    [src |-> b.src, n |-> IF enc = "utf-8" THEN b.lvl - 1 ELSE b.lvl, t |-> b.t]

Encode(text, enc) ==
    [src |-> text.src, kind |-> "text",
     lvl |-> IF enc = "utf-8" THEN text.n + 1 ELSE text.n, t |-> text.t]

\* pysrt.open reads utf-8 (no byte order mark in these files)
PysrtOpens(b) == Decodable(b, "utf-8")

\* sub.shift(**by); sub.save(path): the same text, its timestamps moved
PysrtShifted(b, by) == [b EXCEPT !.t = b.t + by]

(***************************************************************************)
(* The effects of a command: the directory, the logger's records and the   *)
(* exception that left the command ("none" when it returned).              *)
(* bad is a name the file system refuses to open for writing or to         *)
(* rename from or onto (PermissionError); <<>> when there is none.         *)
(***************************************************************************)
Logged(st, level, what, name) ==
    [st EXCEPT !.log = Append(st.log, <<level, what, name>>)]

Raise(st, exc) == [st EXCEPT !.raised = exc]

AsPath(name) == [typ |-> "Path", name |-> name]

BkpName(name) == WithSuffix(name, PathSuffix(name) \o BACKUP_EXT)

\* path.write_bytes(data)
WriteBytes(st, name, data, bad) ==
    IF name = bad THEN Raise(st, "PermissionError")
    ELSE [st EXCEPT !.fs = [q \in DOMAIN st.fs \cup {name} |->
                               IF q = name THEN data ELSE st.fs[q]]]

\* a copy in place of the move: the source stays
ReplaceCopy(st, src, dst, bad) ==
    IF src \notin DOMAIN st.fs THEN Raise(st, "FileNotFoundError")
    ELSE IF src = bad \/ dst = bad THEN Raise(st, "PermissionError")
    ELSE [st EXCEPT !.fs = [q \in DOMAIN st.fs \cup {dst} |->
                               IF q = dst THEN st.fs[src] ELSE st.fs[q]]]

\* src.replace(dst)
Replace(st, src, dst, bad) ==
    IF src \notin DOMAIN st.fs THEN Raise(st, "FileNotFoundError")
    ELSE IF src = bad \/ dst = bad THEN Raise(st, "PermissionError")
    ELSE [st EXCEPT !.fs = [q \in (DOMAIN st.fs \ {src}) \cup {dst} |->
                               IF q = dst THEN st.fs[src] ELSE st.fs[q]]]

\* a backup that does not look at force
backupAlways(st, subtitle, force, bad) ==
    IF subtitle.typ # "Path" THEN Raise(st, "AttributeError")
    ELSE IF subtitle.name \notin DOMAIN st.fs
    THEN Raise(st, "FileNotFoundError")
    ELSE LET w == WriteBytes(st, BkpName(subtitle.name), st.fs[subtitle.name], bad) IN
         IF w.raised # "none" THEN w
         ELSE Logged(w, "info", "backed_up", subtitle.name)

\* SubtitleFixer.backup(subtitle, force)
backup(st, subtitle, force, bad) ==
    IF subtitle.typ # "Path" THEN Raise(st, "AttributeError")
    ELSE LET bkp == BkpName(subtitle.name) IN
         IF bkp \in DOMAIN st.fs /\ ~force
         THEN Logged(st, "warning", "skip_backup", subtitle.name)
         ELSE IF subtitle.name \notin DOMAIN st.fs
         THEN Raise(st, "FileNotFoundError")
         ELSE LET w == WriteBytes(st, bkp, st.fs[subtitle.name], bad) IN
              IF w.raised # "none" THEN w
              ELSE Logged(w, "info", "backed_up", subtitle.name)

\* list[start_index:stop_index], stop_index <<>> for None, <<k>> for k
Slice(list, start, stop) ==
    LET hi == IF stop = <<>> \/ stop[1] > Len(list) THEN Len(list) ELSE stop[1]
    IN  SubSeq(list, start + 1, hi)

Zip(a, b) ==
    [i \in 1..(IF Len(a) < Len(b) THEN Len(a) ELSE Len(b)) |-> <<a[i], b[i]>>]

\* a recode whose read_text is not inside try
RecodeOneNoTry(st, sub, source, target, force, bad) ==
    IF sub \notin DOMAIN st.fs THEN Raise(st, "FileNotFoundError")
    ELSE IF ~Decodable(st.fs[sub], source) THEN Raise(st, "UnicodeDecodeError")
    ELSE LET text == Decode(st.fs[sub], source)
             b == backup(st, AsPath(sub), force, bad)
         IN  IF b.raised # "none" THEN b
             ELSE LET w == WriteBytes(b, sub, Encode(text, target), bad) IN
                  IF w.raised # "none" THEN w
                  ELSE Logged(w, "info", "reencoded", sub)

\* one turn of recode's loop
RecodeOne(st, sub, source, target, force, bad) ==
    IF sub \notin DOMAIN st.fs \/ ~Decodable(st.fs[sub], source)
    THEN Logged(st, "error", "not_encoded", sub)
    ELSE LET text == Decode(st.fs[sub], source)
             b == backup(st, AsPath(sub), force, bad)
         IN  IF b.raised # "none" THEN b
             ELSE LET w == WriteBytes(b, sub, Encode(text, target), bad) IN
                  IF w.raised # "none" THEN w
                  ELSE Logged(w, "info", "reencoded", sub)

RECURSIVE RecodeLoop(_, _, _, _, _, _, _)
RecodeLoop(st, subs, i, source, target, force, bad) ==
    IF i > Len(subs) \/ st.raised # "none" THEN st
    ELSE RecodeLoop(RecodeOne(st, subs[i], source, target, force, bad),
                    subs, i + 1, source, target, force, bad)

\* SubtitleFixer.recode; subtitle is <<>> when not given
recode(st, subtitle, source, target, start, stop, force, bad) ==
    LET subs == IF subtitle # <<>> THEN <<subtitle>> ELSE subtitles(st.fs)
    IN  RecodeLoop(st, Slice(subs, start, stop), 1, source, target, force, bad)

\* a rename to the movie's whole name, suffix included
RenameOneMovieName(st, sub, movie, force, bad) ==
    IF sub = movie THEN st
    ELSE LET b == backup(st, AsPath(sub), force, bad) IN
         IF b.raised # "none" THEN b
         ELSE LET r == Replace(b, sub, movie, bad) IN
              IF r.raised # "none" THEN r
              ELSE Logged(r, "info", "renamed", sub)

\* one turn of rename's loop
RenameOne(st, sub, movie, force, bad) ==
    LET newsub == PathStem(movie) \o PathSuffix(sub) IN
    IF sub = newsub THEN st
    ELSE LET b == backup(st, AsPath(sub), force, bad) IN
         IF b.raised # "none" THEN b
         ELSE LET r == Replace(b, sub, newsub, bad) IN
              IF r.raised # "none" THEN r
              ELSE Logged(r, "info", "renamed", sub)

RECURSIVE RenameLoop(_, _, _, _, _)
RenameLoop(st, pairs, i, force, bad) ==
    IF i > Len(pairs) \/ st.raised # "none" THEN st
    ELSE RenameLoop(RenameOne(st, pairs[i][1], pairs[i][2], force, bad),
                    pairs, i + 1, force, bad)

\* SubtitleFixer.rename
rename(st, start, stop, force, bad) ==
    RenameLoop(st, Slice(Zip(subtitles(st.fs), movies(st.fs)), start, stop),
               1, force, bad)

\* one turn of restore's loop
RestoreOne(st, sub, bad) ==
    LET r == Replace(st, sub, WithSuffix(sub, <<>>), bad) IN
    IF r.raised # "none" THEN r
    ELSE Logged(r, "info", "restored", sub)

RECURSIVE RestoreLoop(_, _, _, _)
RestoreLoop(st, subs, i, bad) ==
    IF i > Len(subs) \/ st.raised # "none" THEN st
    ELSE RestoreLoop(RestoreOne(st, subs[i], bad), subs, i + 1, bad)

\* SubtitleFixer.restore
restore(st, subtitle, start, stop, bad) ==
    LET subs == IF subtitle # <<>> THEN <<subtitle>>
                ELSE subtitle_backups(st.fs)
    IN  RestoreLoop(st, Slice(subs, start, stop), 1, bad)

\* one turn of shift's loop; subtitle is a Path of the listing, or the
\* caller's argument as it was given
ShiftOne(st, subtitle, force, by, bad) ==
    LET b == backup(st, subtitle, force, bad) IN
    IF b.raised # "none" THEN b
    ELSE IF subtitle.name \notin DOMAIN b.fs THEN Raise(b, "FileNotFoundError")
    ELSE IF ~PysrtOpens(b.fs[subtitle.name]) THEN Raise(b, "UnicodeDecodeError")
    ELSE LET w == WriteBytes(b, subtitle.name,
                             PysrtShifted(b.fs[subtitle.name], by), bad) IN
         IF w.raised # "none" THEN w
         ELSE Logged(w, "info", "shifted", subtitle.name)

RECURSIVE ShiftLoop(_, _, _, _, _, _)
ShiftLoop(st, subs, i, force, by, bad) ==
    IF i > Len(subs) \/ st.raised # "none" THEN st
    ELSE ShiftLoop(ShiftOne(st, subs[i], force, by, bad),
                   subs, i + 1, force, by, bad)

\* SubtitleFixer.shift; subtitle is [typ, name], name <<>> when not given
shift(st, subtitle, start, stop, force, by, bad) ==
    LET listed == subtitles(st.fs)
        subs == IF subtitle.name = <<>>
                THEN Slice([i \in 1..Len(listed) |-> AsPath(listed[i])], start, stop)
                ELSE <<subtitle>>
    IN  ShiftLoop(st, subs, 1, force, by, bad)

\* SubtitleFixer.fix
fix(st, start, stop, bad) ==
    LET r == recode(st, <<>>, "windows-1250", "utf-8", start, stop, FALSE, bad)
    IN  IF r.raised # "none" THEN r
        ELSE rename(r, start, stop, FALSE, bad)

(***************************************************************************)
(* The directories a command may find, and the arguments it may get.       *)
(***************************************************************************)
\* "a.mkv", "B.mkv", "a.avi", "c.mp4"
InitMovies ==
    {<<97>> \o MOVIE_EXTS[1], <<66>> \o MOVIE_EXTS[1],
     <<97>> \o MOVIE_EXTS[2], <<99>> \o MOVIE_EXTS[3]}

\* "a.srt", "B.srt", "a.sub"
InitSubs ==
    {<<97>> \o SUB_EXTS[1], <<66>> \o SUB_EXTS[1], <<97>> \o SUB_EXTS[2]}

\* "a.srt.bkp", "B.srt.bkp", "a.sub.bkp": left by earlier commands
InitBkps == {p \o BACKUP_EXT : p \in InitSubs}

\* windows-1250 text, utf-8 text, bytes that are no text
InitForms ==
    {[kind |-> "text", lvl |-> 0], [kind |-> "text", lvl |-> 1],
     [kind |-> "bin", lvl |-> 0]}

Bytes(name, form) ==
    [src |-> name, kind |-> form.kind, lvl |-> form.lvl, t |-> 0]

Dir(M, S, K, f) ==
    [p \in M \cup S \cup K |->
        IF p \in M THEN Bytes(p, [kind |-> "bin", lvl |-> 0])
        ELSE IF p \in S THEN Bytes(p, f[p])
        ELSE Bytes(p, [kind |-> "text", lvl |-> 0])]

Starts == {0, 1}

Stops == {<<>>, <<1>>, <<2>>}

\* the seconds a shift is asked to move the timestamps by
Offsets == {1}

IsSub(p) == \E i \in 1..Len(SUB_EXTS) : EndsWith(p, SUB_EXTS[i])

IsBkp(p) == \E i \in 1..Len(SUB_BKP_EXTS) : EndsWith(p, SUB_BKP_EXTS[i])

IsMovie(p) == \E i \in 1..Len(MOVIE_EXTS) : EndsWith(p, MOVIE_EXTS[i])

\* the names the file system may refuse during a command
Faults(dir) ==
    {p \in DOMAIN dir : IsSub(p) \/ IsBkp(p)}
        \cup {BkpName(p) : p \in {q \in DOMAIN dir : IsSub(q)}}

\* a slice of the listing with a sound file system, or the whole listing
\* with one refused name
SliceFault(dir) ==
    {<<a, o, <<>> >> : a \in Starts, o \in Stops}
        \cup {<<0, <<>>, b>> : b \in Faults(dir)}

\* the arguments' defaults (subfix.py: the def lines)
NoCall ==
    [op |-> "none", subtitle |-> <<>>, typ |-> "Path",
     source |-> "windows-1250", target |-> "utf-8",
     start |-> 0, stop |-> <<>>, force |-> FALSE, by |-> 0, bad |-> <<>>]

\* the number of commands run, the last one, and the directory it found
n == Len(hist)

call == IF hist = <<>> THEN NoCall ELSE hist[Len(hist)].call

pre == IF hist = <<>> THEN fs ELSE hist[Len(hist)].pre

\* the directory the first command found
first == IF hist = <<>> THEN fs ELSE hist[1].pre

Init ==
    /\ \E M \in SUBSET InitMovies, S \in SUBSET InitSubs, K \in SUBSET InitBkps :
          /\ Cardinality(M) + Cardinality(S) + Cardinality(K) <= MaxFiles
          /\ \E f \in [S -> InitForms] : fs = Dir(M, S, K, f)
    /\ log = <<>>
    /\ raised = "none"
    /\ ret = <<>>
    /\ hist = <<>>

(***************************************************************************)
(* fire.Fire(SubtitleFixer): one command of the class, run to its end.     *)
(***************************************************************************)
Start(dir) == [fs |-> dir, log |-> <<>>, raised |-> "none"]

Run(dir, c) ==
    CASE c.op = "recode" ->
           recode(Start(dir), c.subtitle, c.source, c.target,
                  c.start, c.stop, c.force, c.bad)
      [] c.op = "rename" -> rename(Start(dir), c.start, c.stop, c.force, c.bad)
      [] c.op = "restore" -> restore(Start(dir), c.subtitle, c.start, c.stop, c.bad)
      [] c.op = "shift" ->
           shift(Start(dir), [typ |-> c.typ, name |-> c.subtitle],
                 c.start, c.stop, c.force, c.by, c.bad)
      [] c.op = "backup" ->
           backup(Start(dir), [typ |-> c.typ, name |-> c.subtitle], c.force, c.bad)
      [] c.op = "fix" -> fix(Start(dir), c.start, c.stop, c.bad)

Command(c) ==
    \E r \in {Run(fs, c)} :
    /\ fs' = r.fs
    /\ log' = r.log
    /\ raised' = r.raised
    /\ ret' = <<>>
    /\ hist' = Append(hist, [call |-> c, pre |-> fs])

Query(op, list) ==
    /\ ret' = list
    /\ hist' = Append(hist, [call |-> [NoCall EXCEPT !.op = op], pre |-> fs])
    /\ log' = <<>>
    /\ raised' = "none"
    /\ UNCHANGED fs

RecodeDir ==
    \E src \in Encodings, tgt \in Encodings, a \in SliceFault(fs), f \in BOOLEAN :
        Command([NoCall EXCEPT !.op = "recode", !.source = src, !.target = tgt,
                               !.start = a[1], !.stop = a[2], !.bad = a[3],
                               !.force = f])

RecodeOneFile ==
    \E p \in InitSubs, src \in Encodings, tgt \in Encodings, f \in BOOLEAN :
        Command([NoCall EXCEPT !.op = "recode", !.subtitle = p, !.source = src,
                               !.target = tgt, !.force = f])

RenameDir ==
    \E a \in SliceFault(fs), f \in BOOLEAN :
        Command([NoCall EXCEPT !.op = "rename", !.start = a[1], !.stop = a[2],
                               !.bad = a[3], !.force = f])

RestoreDir ==
    \E a \in SliceFault(fs) :
        Command([NoCall EXCEPT !.op = "restore", !.start = a[1], !.stop = a[2],
                               !.bad = a[3]])

RestoreOneFile ==
    \E p \in InitBkps :
        Command([NoCall EXCEPT !.op = "restore", !.subtitle = p])

ShiftDir ==
    \E a \in SliceFault(fs), f \in BOOLEAN, by \in Offsets :
        Command([NoCall EXCEPT !.op = "shift", !.start = a[1], !.stop = a[2],
                               !.bad = a[3], !.force = f, !.by = by])

ShiftOneFile ==
    \E p \in InitSubs, ty \in {"str", "Path"}, f \in BOOLEAN, by \in Offsets :
        Command([NoCall EXCEPT !.op = "shift", !.subtitle = p, !.typ = ty,
                               !.force = f, !.by = by])

BackupFile ==
    \E p \in InitSubs, ty \in {"str", "Path"}, f \in BOOLEAN :
        Command([NoCall EXCEPT !.op = "backup", !.subtitle = p, !.typ = ty,
                               !.force = f])

FixDir ==
    \E a \in SliceFault(fs) :
        Command([NoCall EXCEPT !.op = "fix", !.start = a[1], !.stop = a[2],
                               !.bad = a[3]])

Movies == Query("movies", movies(fs))

Subtitles == Query("subtitles", subtitles(fs))

SubtitleBackups == Query("subtitle_backups", subtitle_backups(fs))

\* one process runs one command
Next ==
    \/ (n = 0 /\ RecodeDir)
    \/ (n = 0 /\ RecodeOneFile)
    \/ (n = 0 /\ RenameDir)
    \/ (n = 0 /\ RestoreDir)
    \/ (n = 0 /\ RestoreOneFile)
    \/ (n = 0 /\ ShiftDir)
    \/ (n = 0 /\ ShiftOneFile)
    \/ (n = 0 /\ BackupFile)
    \/ (n = 0 /\ FixDir)
    \/ (n = 0 /\ Movies)
    \/ (n = 0 /\ Subtitles)
    \/ (n = 0 /\ SubtitleBackups)

Spec == Init /\ [][Next]_vars

(***************************************************************************)
(* A session: up to MaxCmds directory commands, one after the other, each  *)
(* on the whole listing.                                                   *)
(***************************************************************************)
SeqRecode ==
    /\ n < MaxCmds
    /\ \E src \in Encodings : \E tgt \in Encodings \ {src} :
          Command([NoCall EXCEPT !.op = "recode", !.source = src, !.target = tgt])

SeqRename ==
    /\ n < MaxCmds
    /\ \E f \in BOOLEAN : Command([NoCall EXCEPT !.op = "rename", !.force = f])

SeqShift ==
    /\ n < MaxCmds
    /\ \E by \in Offsets :
          Command([NoCall EXCEPT !.op = "shift", !.force = TRUE, !.by = by])

SeqRestore ==
    /\ n < MaxCmds
    /\ Command([NoCall EXCEPT !.op = "restore"])

SeqFix ==
    /\ n < MaxCmds
    /\ Command([NoCall EXCEPT !.op = "fix"])

NextSeq == SeqRecode \/ SeqRename \/ SeqShift \/ SeqRestore \/ SeqFix

SpecSeq == Init /\ [][NextSeq]_vars

(***************************************************************************)
(* backup of one subtitle, one recode or shift, then restore.              *)
(***************************************************************************)
\* the subtitle the first command backed up
Kept == hist[1].call.subtitle

RtBackup ==
    /\ n = 0
    /\ \E p \in InitSubs \cap DOMAIN fs, f \in BOOLEAN :
          Command([NoCall EXCEPT !.op = "backup", !.subtitle = p, !.force = f])

RtRecode ==
    /\ n = 1
    /\ \E src \in Encodings, tgt \in Encodings, f \in BOOLEAN, who \in {<<>>, Kept} :
          Command([NoCall EXCEPT !.op = "recode", !.subtitle = who,
                                 !.source = src, !.target = tgt, !.force = f])

RtShift ==
    /\ n = 1
    /\ \E f \in BOOLEAN, by \in Offsets, who \in {<<>>, Kept} :
          Command([NoCall EXCEPT !.op = "shift", !.subtitle = who,
                                 !.force = f, !.by = by])

RtRestore ==
    /\ n = 2
    /\ Command([NoCall EXCEPT !.op = "restore"])

NextRoundTrip == RtBackup \/ RtRecode \/ RtShift \/ RtRestore

SpecRoundTrip == Init /\ [][NextRoundTrip]_vars

(***************************************************************************)
(* What the claims speak of.                                               *)
(***************************************************************************)
InLog(level, what, name) ==
    \E i \in 1..Len(log) : log[i] = <<level, what, name>>

Range(list) == {list[i] : i \in 1..Len(list)}

DirMode == call.subtitle = <<>>

\* the files the last command's loop went over, in order
SlicedSubs == Slice(subtitles(pre), call.start, call.stop)

SlicedBkps == Slice(subtitle_backups(pre), call.start, call.stop)

SlicedPairs == Slice(Zip(subtitles(pre), movies(pre)), call.start, call.stop)

Target(pair) == PathStem(pair[2]) \o PathSuffix(pair[1])

Has(dir, p, b) == p \in DOMAIN dir /\ dir[p] = b

Same(p) == IF p \in DOMAIN pre THEN Has(fs, p, pre[p]) ELSE p \notin DOMAIN fs

Recoded(b) == Encode(Decode(b, call.source), call.target)

(***************************************************************************)
(* C1.  In a directory run of rename, recode, shift or restore during      *)
(* which the file system refuses one name, the command goes on after the   *)
(* failure: every file of the slice whose own turn succeeds is processed.  *)
(***************************************************************************)
Turn(st, c, item) ==
    CASE c.op = "recode" ->
           RecodeOne(st, item, c.source, c.target, c.force, c.bad)
      [] c.op = "rename" -> RenameOne(st, item[1], item[2], c.force, c.bad)
      [] c.op = "restore" -> RestoreOne(st, item, c.bad)
      [] c.op = "shift" -> ShiftOne(st, AsPath(item), c.force, c.by, c.bad)

Items ==
    CASE call.op = "rename" -> SlicedPairs
      [] call.op = "restore" -> SlicedBkps
      [] OTHER -> SlicedSubs

Processed(item) ==
    CASE call.op = "recode" ->
           InLog("info", "reencoded", item) \/ InLog("error", "not_encoded", item)
      [] call.op = "rename" ->
           item[1] = Target(item) \/ InLog("info", "renamed", item[1])
      [] call.op = "restore" -> InLog("info", "restored", item)
      [] call.op = "shift" -> InLog("info", "shifted", item)

C1_BatchContinues ==
    (call.op \in {"rename", "recode", "shift", "restore"} /\ DirMode
        /\ call.bad # <<>>)
    => \A i \in 1..Len(Items) :
          Turn(Start(pre), call, Items[i]).raised = "none" => Processed(Items[i])

(***************************************************************************)
(* C2.  A second rename of the directory right after a first one renames   *)
(* nothing, writes no backup and leaves every file as it was.              *)
(***************************************************************************)
RenamedTwice ==
    /\ n >= 2
    /\ call.op = "rename"
    /\ hist[n - 1].call = call

C2_RenameIdempotent == RenamedTwice => fs = pre /\ log = <<>>

(***************************************************************************)
(* C3.  A recode, rename, shift, backup or fix called with force = false   *)
(* leaves every backup file that exists when it starts in place with the   *)
(* same bytes; where the backup of a recode, rename or shift skipped an    *)
(* existing backup, the command's change of the subtitle is still made.    *)
(***************************************************************************)
Changed(p) ==
    CASE call.op = "recode" -> Has(fs, p, Recoded(pre[p])) /\ InLog("info", "reencoded", p)
      [] call.op = "shift" ->
           Has(fs, p, PysrtShifted(pre[p], call.by)) /\ InLog("info", "shifted", p)
      [] call.op = "rename" -> InLog("info", "renamed", p)
      [] OTHER -> TRUE

C3_BackupKept ==
    (call.op \in {"recode", "rename", "shift", "backup", "fix"} /\ ~call.force)
    => /\ \A q \in DOMAIN pre : EndsWith(q, BACKUP_EXT) => Has(fs, q, pre[q])
       /\ \A p \in DOMAIN pre :
             (call.op # "fix" /\ InLog("warning", "skip_backup", p))
             => /\ BkpName(p) \in DOMAIN pre
                /\ raised = "none" => Changed(p)

C3_Witness ==
    /\ call.op \in {"recode", "shift"} /\ ~call.force /\ DirMode
    /\ \E p \in DOMAIN pre :
          /\ BkpName(p) \in DOMAIN pre
          /\ InLog("warning", "skip_backup", p)
          /\ p \in DOMAIN fs /\ fs[p] # pre[p]
          /\ Has(fs, BkpName(p), pre[BkpName(p)])

(***************************************************************************)
(* C4.  After backup(p), one recode or shift and a restore of the          *)
(* directory, p holds the bytes it had before the backup and its backup    *)
(* file is gone.  C4_Original states it for every p; C4_RoundTrip for the  *)
(* p whose backup was written (none existed, or force was set).            *)
(***************************************************************************)
RoundTripped ==
    /\ Has(fs, Kept, first[Kept])
    /\ BkpName(Kept) \notin DOMAIN fs

C4_Original == n = 3 => RoundTripped

C4_RoundTrip ==
    (n = 3 /\ (BkpName(Kept) \notin DOMAIN first \/ hist[1].call.force))
    => RoundTripped

C4_Witness ==
    /\ n = 3
    /\ BkpName(Kept) \notin DOMAIN first
    /\ pre[Kept] # first[Kept]
    /\ RoundTripped

(***************************************************************************)
(* C5.  A recode leaves a subtitle that does not decode under the source   *)
(* encoding, and its backup, as they were, logs an error for it, and       *)
(* still re-encodes the subtitles that follow it in the slice.             *)
(***************************************************************************)
RecodeItems ==
    Slice(IF DirMode THEN subtitles(pre) ELSE <<call.subtitle>>,
          call.start, call.stop)

Undecodable(p) == p \notin DOMAIN pre \/ ~Decodable(pre[p], call.source)

C5_DecodeFailureSkips ==
    call.op = "recode"
    => \A L \in {RecodeItems} : \A i \in 1..Len(L) :
          Undecodable(L[i])
          => /\ Same(L[i])
             /\ Same(BkpName(L[i]))
             /\ call.bad = <<>>
                => /\ InLog("error", "not_encoded", L[i])
                   /\ \A j \in (i + 1)..Len(L) :
                         ~Undecodable(L[j])
                         => /\ Has(fs, L[j], Recoded(pre[L[j]]))
                            /\ InLog("info", "reencoded", L[j])

C5_Witness ==
    /\ call.op = "recode" /\ DirMode /\ call.bad = <<>>
    /\ \E L \in {RecodeItems} : \E i \in 1..Len(L) : \E j \in (i + 1)..Len(L) :
          /\ Undecodable(L[i])
          /\ InLog("error", "not_encoded", L[i])
          /\ ~Undecodable(L[j])
          /\ fs[L[j]] # pre[L[j]]

(***************************************************************************)
(* C6.  The lists subtitles(D) and subtitle_backups(D) share no path.      *)
(* C6_Original: and each list is sorted case-insensitively as a whole.     *)
(* C6_Listing: and each list holds the matches of its first pattern, then  *)
(* those of its second, each group sorted case-insensitively.              *)
(***************************************************************************)
KeyLeq(p, q) == StrLeq(Lower(PathStr(p)), Lower(PathStr(q)))

SortedWhole(list) ==
    \A i \in 1..Len(list) : \A j \in (i + 1)..Len(list) : KeyLeq(list[i], list[j])

\* the pattern of exts the name matches
Group(p, exts) == CHOOSE k \in 1..Len(exts) : EndsWith(p, exts[k])

SortedByGroup(list, exts) ==
    \A i \in 1..Len(list) : \A j \in (i + 1)..Len(list) :
        \/ Group(list[i], exts) < Group(list[j], exts)
        \/ (Group(list[i], exts) = Group(list[j], exts) /\ KeyLeq(list[i], list[j]))

Listed(list, exts) ==
    /\ Range(list) = {p \in DOMAIN fs : \E k \in 1..Len(exts) : EndsWith(p, exts[k])}
    /\ Len(list) = Cardinality(Range(list))

C6_Original ==
    /\ call.op = "subtitles"
       => Range(ret) \cap Range(subtitle_backups(fs)) = {} /\ SortedWhole(ret)
    /\ call.op = "subtitle_backups"
       => Range(ret) \cap Range(subtitles(fs)) = {} /\ SortedWhole(ret)

C6_Listing ==
    /\ call.op = "subtitles"
       => /\ Range(ret) \cap Range(subtitle_backups(fs)) = {}
          /\ Listed(ret, SUB_EXTS)
          /\ SortedByGroup(ret, SUB_EXTS)
    /\ call.op = "subtitle_backups"
       => /\ Range(ret) \cap Range(subtitles(fs)) = {}
          /\ Listed(ret, SUB_BKP_EXTS)
          /\ SortedByGroup(ret, SUB_BKP_EXTS)

\* "a.srt" before "B.srt" although "B" < "a", then "a.sub"
C6_Witness ==
    /\ call.op = "subtitles"
    /\ Len(ret) = 3
    /\ StrLess(PathStr(ret[2]), PathStr(ret[1]))
    /\ ~KeyLeq(ret[2], ret[3])

(***************************************************************************)
(* C7.  rename moves subtitle i of the slice of the zipped lists to movie  *)
(* i's stem plus its own suffix: when that name is new and the subtitle    *)
(* has no backup, afterwards the new path holds the subtitle's bytes, the  *)
(* old path is gone and old path + ".bkp" holds those bytes; no other      *)
(* subtitle is touched.                                                    *)
(***************************************************************************)
C7_RenamePairs ==
    (call.op = "rename" /\ call.bad = <<>>)
    => /\ \A i \in 1..Len(SlicedPairs) :
             LET sub == SlicedPairs[i][1] IN
             (Target(SlicedPairs[i]) # sub /\ BkpName(sub) \notin DOMAIN pre)
             => /\ Has(fs, Target(SlicedPairs[i]), pre[sub])
                /\ sub \notin DOMAIN fs
                /\ Has(fs, BkpName(sub), pre[sub])
       /\ \A p \in Range(subtitles(pre)) \ {SlicedPairs[i][1] : i \in 1..Len(SlicedPairs)} :
             Has(fs, p, pre[p])

(***************************************************************************)
(* C8.  shift with force = true writes each subtitle's bytes to its        *)
(* backup before it saves the shifted subtitle, and does so without error  *)
(* when it is given one subtitle instead of a directory.                   *)
(***************************************************************************)
C8_ShiftBacksUp ==
    (call.op = "shift" /\ call.force /\ call.bad = <<>>)
    => /\ \A p \in DOMAIN pre :
             InLog("info", "shifted", p)
             => /\ Has(fs, BkpName(p), pre[p])
                /\ Has(fs, p, PysrtShifted(pre[p], call.by))
       /\ (~DirMode /\ call.subtitle \in DOMAIN pre /\ PysrtOpens(pre[call.subtitle]))
          => raised = "none" /\ InLog("info", "shifted", call.subtitle)

(***************************************************************************)
(* C9.  After any session of directory runs of recode, rename, shift,      *)
(* restore and fix the directory holds the movie paths it held before the  *)
(* session, with the same bytes.                                           *)
(***************************************************************************)
MovieFiles(dir) == {p \in DOMAIN dir : IsMovie(p)}

C9_MoviesKept ==
    /\ MovieFiles(fs) = MovieFiles(first)
    /\ \A m \in MovieFiles(fs) : fs[m] = first[m]

\* two commands, the second a rename that renamed a subtitle
C9_Witness ==
    /\ n = 2
    /\ call.op = "rename"
    /\ MovieFiles(pre) # {}
    /\ \E p \in DOMAIN pre : InLog("info", "renamed", p)

(***************************************************************************)
(* C10.  After rename with force = false on a directory that holds no      *)
(* backup file, the bytes of every subtitle the directory held are still   *)
(* in it, under a subtitle name or a backup name.                          *)
(***************************************************************************)
C10_NoSubtitleLost ==
    (call.op = "rename" /\ ~call.force /\ call.bad = <<>>
        /\ call.start = 0 /\ call.stop = <<>>
        /\ \A q \in DOMAIN pre : ~EndsWith(q, BACKUP_EXT))
    => \A p \in Range(subtitles(pre)) :
          \E q \in DOMAIN fs :
              (IsSub(q) \/ EndsWith(q, BACKUP_EXT)) /\ fs[q] = pre[p]

============================================================================
